---- MODULE Spec2Model ----
(***************************************************************************)
(* ip-checker: CIDR parsing (src/src/lib.rs), CIDR overlap detection       *)
(* (src/src/commands/cidr.rs) and the exit of the process                  *)
(* (src/src/main.rs).                                                      *)
(*                                                                         *)
(* An IpAddr is a record [kind, octets]: kind is "V4" or "V6" and octets   *)
(* is the big-endian byte array (4 or 16 bytes).  u32 and u128 values are  *)
(* sequences of 32 or 128 bits, most significant bit first, so that the    *)
(* shifts and masks keep their width.  Text is a sequence of one-character *)
(* strings.                                                                *)
(***************************************************************************)
EXTENDS Integers, Sequences, FiniteSets, TLC

VARIABLES
    pc,               \* position of the running operation
    overflow_checks,  \* build profile: TRUE = debug/test (arithmetic overflow panics)
    network1,         \* text argument: cidr_str of parse_cidr, network1 of check_cidr_overlap
    network2,         \* text argument network2 of check_cidr_overlap
    ip1,
    prefix1,
    ip2,
    prefix2,
    network_addr1,    \* value returned by get_network_address
    network_addr2,
    overlaps,         \* value returned by networks_overlap
    computed,         \* how many network addresses and masks the operation computed
    result,           \* Result returned by the operation
    verbose,          \* argument verbose of check_cidr_overlap
    stdout,           \* the lines printed so far
    call_log,         \* the calls check_cidr_overlap has made so far, in order
    exit_code         \* exit code of the process, once it has ended

vars == <<pc, overflow_checks, network1, network2, ip1, prefix1, ip2, prefix2,
          network_addr1, network_addr2, overlaps, computed, result,
          verbose, stdout, call_log, exit_code>>

\* the variables that only the command line run of check_cidr_overlap uses
cli_vars == <<verbose, stdout, call_log, exit_code>>

Null == "null"

\* outside a command line run: nothing printed, no process to end
NoCli == verbose = FALSE /\ stdout = <<>> /\ call_log = <<>> /\ exit_code = Null

---------------------------------------------------------------------------
(* Program constants *)

V4Bits == 32
V6Bits == 128
U8Max == 255

---------------------------------------------------------------------------
(* Bounds of the model *)

\* how many addresses of each pool the overlap specification draws
NumV4 == 3
NumV6 == 2
\* the largest prefix number written in a CIDR text
MaxPrefixText == 260

---------------------------------------------------------------------------
(* Fixed-width unsigned integers as bit sequences, most significant first *)

Pow2(n) == 2 ^ n

Zeros(w) == [i \in 1..w |-> 0]
Ones(w) == [i \in 1..w |-> 1]

\* u32::from_be_bytes / u128::from_be_bytes
BitsOfOctets(octs) ==
    [i \in 1..(8 * Len(octs)) |->
        (octs[((i - 1) \div 8) + 1] \div Pow2(7 - ((i - 1) % 8))) % 2]

\* u32::to_be_bytes / u128::to_be_bytes
OctetsOfBits(bits) ==
    [k \in 1..(Len(bits) \div 8) |->
        LET b == 8 * (k - 1) IN
          128 * bits[b + 1] + 64 * bits[b + 2] + 32 * bits[b + 3] + 16 * bits[b + 4]
          + 8 * bits[b + 5] + 4 * bits[b + 6] + 2 * bits[b + 7] + bits[b + 8]]

\* x << n on a value of Len(x) bits, 0 <= n < Len(x): the high bits fall off
ShiftLeft(x, n) ==
    [i \in 1..Len(x) |-> IF i + n <= Len(x) THEN x[i + n] ELSE 0]

\* x & y
BitAnd(x, y) == [i \in 1..Len(x) |-> x[i] * y[i]]

\* a - b on u8: panics under overflow checks, wraps otherwise
Sub8(a, b) ==
    [panic |-> overflow_checks /\ a < b,
     underflow |-> a < b,
     val |-> (a - b + (U8Max + 1)) % (U8Max + 1)]

\* x << n with n: u8. A shift by the width or more panics under overflow
\* checks; otherwise the shift amount is taken modulo the width.
Shl(x, n) ==
    [panic |-> overflow_checks /\ n >= Len(x),
     val |-> ShiftLeft(x, n % Len(x))]

---------------------------------------------------------------------------
(* std::net::IpAddr *)

V4(a, b, c, d) == [kind |-> "V4", octets |-> <<a, b, c, d>>]

\* Ipv6Addr::new(a, b, c, d, e, f, g, h): eight 16-bit segments
V6(segs) ==
    [kind |-> "V6",
     octets |-> [i \in 1..16 |->
                   IF i % 2 = 1 THEN segs[(i + 1) \div 2] \div 256
                                ELSE segs[i \div 2] % 256]]

Width(ip) == IF ip.kind = "V4" THEN V4Bits ELSE V6Bits

\* u32::from(Ipv4Addr) / u128::from(Ipv6Addr)
UintFromIp(ip) == BitsOfOctets(ip.octets)

\* Ipv4Addr::from(u32) / Ipv6Addr::from(u128)
IpFromUint(kind, bits) == [kind |-> kind, octets |-> OctetsOfBits(bits)]

---------------------------------------------------------------------------
(* Address pools the specifications draw from (the addresses of the tests
   of src/src/commands/cidr.rs first) *)

V4Pool ==
    << V4(192, 168, 1, 0), V4(192, 168, 1, 128), V4(192, 168, 1, 1),
       V4(192, 168, 0, 0), V4(10, 0, 0, 0), V4(0, 0, 0, 0),
       V4(255, 255, 255, 255), V4(172, 16, 32, 1) >>

V6Pool ==
    << V6(<<8193, 3512, 0, 0, 0, 0, 0, 0>>),          \* 2001:db8::
       V6(<<8193, 3512, 1, 0, 0, 0, 0, 0>>),          \* 2001:db8:1::
       V6(<<8194, 3512, 0, 0, 0, 0, 0, 0>>),          \* 2002:db8::
       V6(<<8193, 3512, 1, 0, 0, 0, 0, 1>>),          \* 2001:db8:1::1
       V6(<<8193, 3512, 4660, 22136, 0, 0, 0, 1>>),   \* 2001:db8:1234:5678::1
       V6(<<0, 0, 0, 0, 0, 0, 0, 0>>),                \* ::
       V6(<<0, 0, 0, 0, 0, 0, 0, 1>>),                \* ::1
       V6(<<0, 0, 0, 0, 0, 65535, 49320, 257>>),      \* ::ffff:192.168.1.1
       V6(<<1, 0, 0, 2, 0, 0, 0, 3>>),                \* 1:0:0:2::3
       V6(<<1, 0, 2, 3, 4, 5, 6, 7>>),                \* 1:0:2:3:4:5:6:7
       V6(<<65535, 65535, 65535, 65535, 65535, 65535, 65535, 65535>>) >>

Take(pool, n) == {pool[i] : i \in 1..(IF n < Len(pool) THEN n ELSE Len(pool))}

OverlapAddrs == Take(V4Pool, NumV4) \cup Take(V6Pool, NumV6)
AllAddrs == Take(V4Pool, Len(V4Pool)) \cup Take(V6Pool, Len(V6Pool))

\* the prefix lengths that are valid for an address
ValidPrefixes(ip) == 0..Width(ip)

\* the prefix lengths the overlap specification draws: every IPv4 prefix; of
\* the IPv6 prefixes those at a byte boundary and the two on either side
OverlapPrefixes(ip) ==
    IF ip.kind = "V4" THEN ValidPrefixes(ip)
    ELSE {p \in ValidPrefixes(ip) : p % 8 \in {0, 1, 6, 7}}

---------------------------------------------------------------------------
(* src/src/commands/cidr.rs *)

Min(a, b) == IF a < b THEN a ELSE b

\* PrefixMask without the branch for prefix_len = 0
PrefixMaskNoZeroCase(width, prefix_len) ==
    LET d == Sub8(width, prefix_len)
        s == Shl(Ones(width), d.val)
    IN [panic |-> d.panic \/ s.panic, underflow |-> d.underflow,
        shift |-> d.val, val |-> s.val]

\* PrefixMask shifting one bit too far
PrefixMaskOffByOne(width, prefix_len) ==
    IF prefix_len = 0
      THEN [panic |-> FALSE, underflow |-> FALSE, shift |-> 0, val |-> Zeros(width)]
      ELSE LET d == Sub8(width + 1, prefix_len)
               s == Shl(Ones(width), d.val)
           IN [panic |-> d.panic \/ s.panic, underflow |-> d.underflow,
               shift |-> d.val, val |-> s.val]

\* the mask of prefix_len leading one-bits, as lines 9-13, 19-23, 53-57 and
\* 68-72 compute it
PrefixMask(width, prefix_len) ==
    IF prefix_len = 0
      THEN [panic |-> FALSE, underflow |-> FALSE, shift |-> 0, val |-> Zeros(width)]
      ELSE LET d == Sub8(width, prefix_len)
               s == Shl(Ones(width), d.val)
           IN [panic |-> d.panic \/ s.panic, underflow |-> d.underflow,
               shift |-> d.val, val |-> s.val]

\* get_network_address with the IPv4 width used in the IPv6 branch too
GetNetworkAddressV4Width(ip, prefix_len) ==
    LET ip_u == UintFromIp(ip)
        d == Sub8(V4Bits, prefix_len)
        s == Shl(Ones(Width(ip)), d.val)
        mask == IF prefix_len = 0 THEN [panic |-> FALSE, val |-> Zeros(Width(ip))]
                ELSE [panic |-> d.panic \/ s.panic, val |-> s.val]
        network_u == BitAnd(ip_u, mask.val)
    IN [panic |-> mask.panic, ok |-> TRUE, val |-> IpFromUint(ip.kind, network_u)]

\* get_network_address keeping the host bits instead of the network bits
GetNetworkAddressHostBits(ip, prefix_len) ==
    LET ip_u == UintFromIp(ip)
        mask == PrefixMask(Width(ip), prefix_len)
        network_u == [i \in 1..Len(ip_u) |-> ip_u[i] * (1 - mask.val[i])]
    IN [panic |-> mask.panic, ok |-> TRUE, val |-> IpFromUint(ip.kind, network_u)]

\* fn get_network_address(ip, prefix_len) -> Result<IpAddr, _>
GetNetworkAddress(ip, prefix_len) ==
    LET ip_u == UintFromIp(ip)
        mask == PrefixMask(Width(ip), prefix_len)
        network_u == BitAnd(ip_u, mask.val)
    IN [panic |-> mask.panic, ok |-> TRUE, val |-> IpFromUint(ip.kind, network_u)]

\* lines 43-78 of networks_overlap with the comparison made under the mask of
\* cmp_prefix leading one-bits, for the variants of networks_overlap below
OverlapUnderPrefix(a1, p1, a2, p2, cmp_prefix) ==
    LET n1 == GetNetworkAddress(a1, p1)
        n2 == GetNetworkAddress(a2, p2)
        net1_u == UintFromIp(n1.val)
        net2_u == UintFromIp(n2.val)
        mask == PrefixMask(Width(n1.val), cmp_prefix)
    IN IF n1.val.kind = n2.val.kind
         THEN [panic |-> n1.panic \/ n2.panic \/ mask.panic, ok |-> TRUE,
               val |-> BitAnd(net1_u, mask.val) = BitAnd(net2_u, mask.val),
               computed |-> [network_addrs |-> 2, masks |-> 3]]
         ELSE [panic |-> TRUE, ok |-> TRUE, val |-> FALSE,
               computed |-> [network_addrs |-> 2, masks |-> 2]]

\* networks_overlap comparing under the longer prefix
NetworksOverlapMaxPrefix(a1, p1, a2, p2) ==
    IF a1.kind # a2.kind
      THEN [panic |-> FALSE, ok |-> TRUE, val |-> FALSE,
            computed |-> [network_addrs |-> 0, masks |-> 0]]
      ELSE OverlapUnderPrefix(a1, p1, a2, p2, IF p1 < p2 THEN p2 ELSE p1)

\* networks_overlap comparing under the first prefix
NetworksOverlapFirstPrefix(a1, p1, a2, p2) ==
    IF a1.kind # a2.kind
      THEN [panic |-> FALSE, ok |-> TRUE, val |-> FALSE,
            computed |-> [network_addrs |-> 0, masks |-> 0]]
      ELSE OverlapUnderPrefix(a1, p1, a2, p2, p1)

\* networks_overlap without the early return for different families
NetworksOverlapNoFamilyCheck(a1, p1, a2, p2) ==
    OverlapUnderPrefix(a1, p1, a2, p2, Min(p1, p2))

\* fn networks_overlap(ip1, prefix1, ip2, prefix2) -> Result<bool, _>
NetworksOverlap(a1, p1, a2, p2) ==
    IF a1.kind # a2.kind
      THEN [panic |-> FALSE, ok |-> TRUE, val |-> FALSE,
            computed |-> [network_addrs |-> 0, masks |-> 0]]
      ELSE LET n1 == GetNetworkAddress(a1, p1)
               n2 == GetNetworkAddress(a2, p2)
               net1_u == UintFromIp(n1.val)
               net2_u == UintFromIp(n2.val)
               min_prefix == Min(p1, p2)
               mask == PrefixMask(Width(n1.val), min_prefix)
           IN IF n1.val.kind = n2.val.kind
                THEN [panic |-> n1.panic \/ n2.panic \/ mask.panic, ok |-> TRUE,
                      val |-> BitAnd(net1_u, mask.val) = BitAnd(net2_u, mask.val),
                      computed |-> [network_addrs |-> 2, masks |-> 3]]
                ELSE \* unreachable!()
                     [panic |-> TRUE, ok |-> TRUE, val |-> FALSE,
                      computed |-> [network_addrs |-> 2, masks |-> 2]]

---------------------------------------------------------------------------
(* Text: sequences of one-character strings *)

DecDigits == <<"0", "1", "2", "3", "4", "5", "6", "7", "8", "9">>
HexDigits == DecDigits \o <<"a", "b", "c", "d", "e", "f">>

UpperHexDigits == <<"A", "B", "C", "D", "E", "F">>

\* char::to_digit(radix): the value of a digit character, -1 for any other
DigitIn(ds) == IF ds = {} THEN -1 ELSE (CHOOSE d \in ds : TRUE) - 1

ToDigit(c, radix) ==
    DigitIn({d \in 1..radix :
               HexDigits[d] = c \/ (d > 10 /\ UpperHexDigits[d - 10] = c)})

\* format!("{}", n) and format!("{:x}", n) of an unsigned integer
RECURSIVE FmtRadix(_, _)
FmtRadix(n, radix) ==
    IF n < radix THEN <<HexDigits[n + 1]>>
    ELSE Append(FmtRadix(n \div radix, radix), HexDigits[(n % radix) + 1])

FmtDec(n) == FmtRadix(n, 10)
FmtHex(n) == FmtRadix(n, 16)

\* str::split(sep).collect(): the pieces between the separators
RECURSIVE SplitFrom(_, _, _, _)
SplitFrom(s, sep, i, piece) ==
    IF i > Len(s) THEN <<piece>>
    ELSE IF s[i] = sep THEN <<piece>> \o SplitFrom(s, sep, i + 1, <<>>)
    ELSE SplitFrom(s, sep, i + 1, Append(piece, s[i]))

Split(s, sep) == SplitFrom(s, sep, 1, <<>>)

---------------------------------------------------------------------------
(* str::parse::<IpAddr>() and str::parse::<u8>(), as lib.rs calls them.
   A reader takes the text and the position of the next character and
   returns [ok, pos, val]; a failed reader consumes nothing.  Each step of a
   reader is an operator that takes what the step before it has read. *)

NoRead(pos) == [ok |-> FALSE, pos |-> pos, val |-> 0, count |-> 0]

\* Parser::read_atomically: a failed read leaves the position where it was
Atomically(pos, r) == IF r.ok THEN r ELSE NoRead(pos)

\* the digit loop of read_number: fails when the value passes max_val or the
\* digits pass max_digits; digit is to_digit of the character at pos
RECURSIVE ReadDigits(_, _, _, _, _, _, _)
DigitRead(s, pos, radix, max_digits, max_val, acc, count, digit) ==
    IF digit < 0
      THEN [ok |-> TRUE, pos |-> pos, val |-> acc, count |-> count]
    ELSE IF acc * radix + digit > max_val \/ count + 1 > max_digits
      THEN NoRead(pos)
    ELSE ReadDigits(s, pos + 1, radix, max_digits, max_val,
                    acc * radix + digit, count + 1)

ReadDigits(s, pos, radix, max_digits, max_val, acc, count) ==
    IF pos <= Len(s)
      THEN DigitRead(s, pos, radix, max_digits, max_val, acc, count,
                     ToDigit(s[pos], radix))
      ELSE [ok |-> TRUE, pos |-> pos, val |-> acc, count |-> count]

\* the end of read_number: no digit, or a refused leading zero, is no number
NumberRead(pos, leading_zero_refused, d) ==
    IF ~d.ok \/ d.count = 0 THEN NoRead(pos)
    ELSE IF leading_zero_refused /\ d.count > 1 THEN NoRead(pos)
    ELSE [ok |-> TRUE, pos |-> d.pos, val |-> d.val, count |-> d.count]

\* Parser::read_number(radix, Some(max_digits), allow_zero_prefix)
ReadNumber(s, pos, radix, max_digits, allow_zero_prefix, max_val) ==
    NumberRead(pos, ~allow_zero_prefix /\ pos <= Len(s) /\ s[pos] = "0",
               ReadDigits(s, pos, radix, max_digits, max_val, 0, 0))

\* Parser::read_separator(sep, index, ..): the position after the separator
\* that precedes every group but the first; 0 when it is missing
AfterSeparator(s, pos, sep, index) ==
    IF index = 0 THEN pos
    ELSE IF pos <= Len(s) /\ s[pos] = sep THEN pos + 1
    ELSE 0

\* read_separator(sep, index, |p| p.read_number(..)), p from AfterSeparator
SeparatedNumber(s, p, radix, max_digits, allow_zero_prefix, max_val) ==
    IF p = 0 THEN NoRead(0)
    ELSE ReadNumber(s, p, radix, max_digits, allow_zero_prefix, max_val)

\* Parser::read_ipv4_addr: four decimal octets, no leading zeros
RECURSIVE ReadIpv4Groups(_, _, _, _)
Ipv4GroupRead(s, i, groups, n) ==
    IF ~n.ok THEN n
    ELSE ReadIpv4Groups(s, n.pos, i + 1, Append(groups, n.val))

ReadIpv4Groups(s, pos, i, groups) ==
    IF i = 4 THEN [ok |-> TRUE, pos |-> pos, val |-> groups, count |-> 4]
    ELSE Ipv4GroupRead(s, i, groups,
                       SeparatedNumber(s, AfterSeparator(s, pos, ".", i),
                                       10, 3, FALSE, U8Max))

ReadIpv4Addr(s, pos) == Atomically(pos, ReadIpv4Groups(s, pos, 0, <<>>))

\* read_separator(':', index, |p| p.read_ipv4_addr()), p from AfterSeparator
SeparatedIpv4(s, p) == IF p = 0 THEN NoRead(0) ELSE ReadIpv4Addr(s, p)

\* read_groups of Parser::read_ipv6_addr: up to limit 16-bit groups, the last
\* two of which may be an embedded IPv4 address
RECURSIVE ReadGroups(_, _, _, _, _)
GroupRead(s, pos, i, limit, groups, g) ==
    IF g.ok THEN ReadGroups(s, g.pos, i + 1, limit, Append(groups, g.val))
    ELSE [pos |-> pos, groups |-> groups, ipv4 |-> FALSE]

EmbeddedIpv4Read(s, pos, i, limit, groups, v4) ==
    IF v4.ok
      THEN [pos |-> v4.pos,
            groups |-> groups \o <<v4.val[1] * 256 + v4.val[2],
                                   v4.val[3] * 256 + v4.val[4]>>,
            ipv4 |-> TRUE]
      ELSE GroupRead(s, pos, i, limit, groups,
                     SeparatedNumber(s, AfterSeparator(s, pos, ":", i),
                                     16, 4, TRUE, 65535))

ReadGroups(s, pos, i, limit, groups) ==
    IF i >= limit THEN [pos |-> pos, groups |-> groups, ipv4 |-> FALSE]
    ELSE EmbeddedIpv4Read(s, pos, i, limit, groups,
                          IF i < limit - 1
                            THEN SeparatedIpv4(s, AfterSeparator(s, pos, ":", i))
                            ELSE NoRead(0))

\* Parser::read_ipv6_addr: the groups before "::", then those after it
Ipv6TailRead(head, tail) ==
    [ok |-> TRUE, pos |-> tail.pos, count |-> 8,
     val |-> head.groups
             \o [k \in 1..(8 - Len(head.groups) - Len(tail.groups)) |-> 0]
             \o tail.groups]

Ipv6HeadRead(s, pos, head) ==
    IF Len(head.groups) = 8
      THEN [ok |-> TRUE, pos |-> head.pos, val |-> head.groups, count |-> 8]
    ELSE IF head.ipv4 THEN NoRead(pos)
    ELSE IF ~(head.pos + 1 <= Len(s) /\ s[head.pos] = ":" /\ s[head.pos + 1] = ":")
      THEN NoRead(pos)
    ELSE Ipv6TailRead(head, ReadGroups(s, head.pos + 2, 0,
                                       8 - (Len(head.groups) + 1), <<>>))

ReadIpv6Addr(s, pos) == Ipv6HeadRead(s, pos, ReadGroups(s, pos, 0, 8, <<>>))

\* <IpAddr as FromStr>::from_str: IPv4 first, then IPv6; all the text must
\* be consumed
Ipv6Parsed(s, v6) ==
    IF v6.ok /\ v6.pos > Len(s) THEN [ok |-> TRUE, val |-> V6(v6.val)]
    ELSE [ok |-> FALSE]

Ipv4Parsed(s, v4) ==
    IF v4.ok
      THEN IF v4.pos > Len(s)
             THEN [ok |-> TRUE, val |-> V4(v4.val[1], v4.val[2], v4.val[3], v4.val[4])]
             ELSE [ok |-> FALSE]
      ELSE Ipv6Parsed(s, ReadIpv6Addr(s, 1))

IpAddrFromStr(s) == Ipv4Parsed(s, ReadIpv4Addr(s, 1))

\* <u8 as FromStr>::from_str: an optional "+", then decimal digits only, the
\* value at most 255
U8Read(digits, d) ==
    IF d.ok /\ d.pos > Len(digits) THEN [ok |-> TRUE, val |-> d.val]
    ELSE [ok |-> FALSE]

U8FromDigits(digits) ==
    U8Read(digits, ReadDigits(digits, 1, 10, Len(digits), U8Max, 0, 0))

U8FromStr(s) ==
    IF Len(s) = 0 THEN [ok |-> FALSE]
    ELSE IF Len(s) = 1 /\ s[1] \in {"+", "-"} THEN [ok |-> FALSE]
    ELSE U8FromDigits(IF s[1] = "+" THEN Tail(s) ELSE s)

---------------------------------------------------------------------------
(* <IpAddr as Display>::fmt *)

Segments(ip) == [k \in 1..8 |-> ip.octets[2 * k - 1] * 256 + ip.octets[2 * k]]

FmtIpv4(octets) ==
    FmtDec(octets[1]) \o <<".">> \o FmtDec(octets[2]) \o <<".">>
    \o FmtDec(octets[3]) \o <<".">> \o FmtDec(octets[4])

\* fmt_subslice: the segments from..to in hexadecimal, joined by ":"
RECURSIVE FmtSubslice(_, _, _)
FmtSubslice(segs, from, to) ==
    IF from > to THEN <<>>
    ELSE FmtSubslice(segs, from, to - 1)
         \o (IF from = to THEN <<>> ELSE <<":">>) \o FmtHex(segs[to])

\* the length of the run of zero segments that starts at k
RECURSIVE ZeroRun(_, _)
ZeroRun(segs, k) ==
    IF k > Len(segs) \/ segs[k] # 0 THEN 0 ELSE 1 + ZeroRun(segs, k + 1)

\* the start of the first of the longest runs of zero segments, given the
\* lengths of the runs that start at each segment
FirstLongest(runs) ==
    CHOOSE k \in 1..8 :
      /\ \A j \in 1..8 : runs[j] <= runs[k]
      /\ \A j \in 1..(k - 1) : runs[j] < runs[k]

FmtCompressed(segs, start, len) ==
    IF len > 1
      THEN FmtSubslice(segs, 1, start - 1) \o <<":", ":">>
           \o FmtSubslice(segs, start + len, 8)
      ELSE FmtSubslice(segs, 1, 8)

FmtLongestCompressed(segs, runs, start) == FmtCompressed(segs, start, runs[start])

FmtZeroRuns(segs, runs) == FmtLongestCompressed(segs, runs, FirstLongest(runs))

FmtSegments(ip, segs) ==
    IF (\A k \in 1..5 : segs[k] = 0) /\ segs[6] = 65535
      THEN <<":", ":", "f", "f", "f", "f", ":">>
           \o FmtIpv4(<<ip.octets[13], ip.octets[14], ip.octets[15], ip.octets[16]>>)
      ELSE FmtZeroRuns(segs, <<ZeroRun(segs, 1), ZeroRun(segs, 2), ZeroRun(segs, 3),
                               ZeroRun(segs, 4), ZeroRun(segs, 5), ZeroRun(segs, 6),
                               ZeroRun(segs, 7), ZeroRun(segs, 8)>>)

FmtIpv6(ip) == FmtSegments(ip, Segments(ip))

FmtIp(ip) == IF ip.kind = "V4" THEN FmtIpv4(ip.octets) ELSE FmtIpv6(ip)

\* format!("{}/{}", addr, prefix)
FmtCidr(ip, prefix) == FmtIp(ip) \o <<"/">> \o FmtDec(prefix)

---------------------------------------------------------------------------
(* src/src/lib.rs *)

InvalidFormat(text) == [ok |-> FALSE, kind |-> "InvalidFormat", text |-> text]
InvalidCidr(text) == [ok |-> FALSE, kind |-> "InvalidCidr", text |-> text]

\* .map_err(|_| IpParseError::InvalidFormat(ip_str.to_string()))
MapErrInvalidFormat(ip_str, r) ==
    IF r.ok THEN [ok |-> TRUE, ip |-> r.val] ELSE InvalidFormat(ip_str)

\* fn parse_ip_address(ip_str) -> Result<IpAddr, IpParseError>
ParseIpAddress(ip_str) == MapErrInvalidFormat(ip_str, IpAddrFromStr(ip_str))

\* format!("Invalid prefix length {} for {} address", prefix, "IPv4" | "IPv6")
PrefixLengthMessage(prefix, ip) ==
    <<"I", "n", "v", "a", "l", "i", "d", " ", "p", "r", "e", "f", "i", "x", " ", "l", "e", "n", "g", "t", "h", " ">> \o FmtDec(prefix) \o <<" ", "f", "o", "r", " ">>
    \o (IF ip.kind = "V4" THEN <<"I", "P", "v", "4">> ELSE <<"I", "P", "v", "6">>) \o <<" ", "a", "d", "d", "r", "e", "s", "s">>

\* max_prefix taken as 128 for both families
MaxPrefixAlwaysV6(ip) == V6Bits

\* lines 43-46: max_prefix
MaxPrefix(ip) == IF ip.kind = "V4" THEN V4Bits ELSE V6Bits

\* lines 37-60 without the range check of the prefix
ParsedCidrNoRangeCheck(cidr_str, ip, prefix) ==
    IF ~ip.ok THEN ip
    ELSE IF ~prefix.ok THEN InvalidCidr(cidr_str)
    ELSE [ok |-> TRUE, ip |-> ip.ip, prefix |-> prefix.val]

\* lines 37-60 reporting a rejected address portion as InvalidCidr
ParsedCidrAddressAsCidrError(cidr_str, ip, prefix) ==
    IF ~ip.ok THEN InvalidCidr(cidr_str)
    ELSE IF ~prefix.ok THEN InvalidCidr(cidr_str)
    ELSE IF prefix.val > MaxPrefix(ip.ip)
      THEN InvalidCidr(PrefixLengthMessage(prefix.val, ip.ip))
    ELSE [ok |-> TRUE, ip |-> ip.ip, prefix |-> prefix.val]

\* lines 37-60 refusing the full-width prefix (>= for >)
ParsedCidrStrictRange(cidr_str, ip, prefix) ==
    IF ~ip.ok THEN ip
    ELSE IF ~prefix.ok THEN InvalidCidr(cidr_str)
    ELSE IF prefix.val >= MaxPrefix(ip.ip)
      THEN InvalidCidr(PrefixLengthMessage(prefix.val, ip.ip))
    ELSE [ok |-> TRUE, ip |-> ip.ip, prefix |-> prefix.val]

\* lines 37-60 of parse_cidr: ip is what parse_ip_address(parts[0]) returned
\* and prefix what parts[1].parse::<u8>() returned
ParsedCidr(cidr_str, ip, prefix) ==
    IF ~ip.ok THEN ip
    ELSE IF ~prefix.ok THEN InvalidCidr(cidr_str)
    ELSE IF prefix.val > MaxPrefix(ip.ip)
      THEN InvalidCidr(PrefixLengthMessage(prefix.val, ip.ip))
    ELSE [ok |-> TRUE, ip |-> ip.ip, prefix |-> prefix.val]

\* lines 32-35 of parse_cidr: parts is cidr_str.split('/').collect()
SplitCidr(cidr_str, parts) ==
    IF Len(parts) # 2 THEN InvalidCidr(cidr_str)
    ELSE ParsedCidr(cidr_str, ParseIpAddress(parts[1]), U8FromStr(parts[2]))

\* fn parse_cidr(cidr_str) -> Result<(IpAddr, u8), IpParseError>
ParseCidr(cidr_str) == SplitCidr(cidr_str, Split(cidr_str, "/"))

---------------------------------------------------------------------------
(* Direct calls of get_network_address, as the unit tests make them *)

InitNetwork ==
    /\ pc = "ready"
    /\ overflow_checks = TRUE
    /\ ip1 \in OverlapAddrs
    /\ prefix1 \in ValidPrefixes(ip1)
    /\ network1 = Null /\ network2 = Null /\ ip2 = Null /\ prefix2 = Null
    /\ network_addr1 = Null /\ network_addr2 = Null /\ overlaps = Null
    /\ computed = Null /\ result = Null
    /\ NoCli

CallGetNetworkAddress ==
    /\ pc = "ready"
    /\ LET r == GetNetworkAddress(ip1, prefix1) IN
         IF r.panic
           THEN /\ pc' = "panicked"
                /\ result' = "panic"
                /\ UNCHANGED network_addr1
           ELSE /\ pc' = "network_done"
                /\ result' = "Ok"
                /\ network_addr1' = r.val
    /\ UNCHANGED <<overflow_checks, network1, network2, ip1, prefix1, ip2, prefix2,
                   network_addr2, overlaps, computed>>
    /\ UNCHANGED cli_vars

NextNetwork == CallGetNetworkAddress

SpecNetwork == InitNetwork /\ [][NextNetwork]_vars

---------------------------------------------------------------------------
(* Direct calls of networks_overlap, as the unit tests make them *)

InitOverlap ==
    /\ pc = "ready"
    /\ overflow_checks = TRUE
    /\ ip1 \in OverlapAddrs
    /\ prefix1 \in OverlapPrefixes(ip1)
    /\ ip2 \in OverlapAddrs
    /\ prefix2 \in OverlapPrefixes(ip2)
    /\ network1 = Null /\ network2 = Null
    /\ network_addr1 = Null /\ network_addr2 = Null /\ overlaps = Null
    /\ computed = Null /\ result = Null
    /\ NoCli

CallNetworksOverlap ==
    /\ pc = "ready"
    /\ LET r == NetworksOverlap(ip1, prefix1, ip2, prefix2) IN
         IF r.panic
           THEN /\ pc' = "panicked"
                /\ result' = "panic"
                /\ UNCHANGED <<overlaps, computed>>
           ELSE /\ pc' = "overlap_done"
                /\ result' = "Ok"
                /\ overlaps' = r.val
                /\ computed' = r.computed
    /\ UNCHANGED <<overflow_checks, network1, network2, ip1, prefix1, ip2, prefix2,
                   network_addr1, network_addr2>>
    /\ UNCHANGED cli_vars

NextOverlap == CallNetworksOverlap

SpecOverlap == InitOverlap /\ [][NextOverlap]_vars

---------------------------------------------------------------------------
(* The texts the parse specification draws *)

\* every pool address with every prefix number up to MaxPrefixText, as
\* format!("{}/{}", ..) writes them
CanonicalCidrTexts == {FmtCidr(a, n) : a \in AllAddrs, n \in 0..MaxPrefixText}

\* address portions the address parser rejects
RejectedAddrTexts ==
    {
      <<"n", "o", "t", "-", "a", "n", "-", "i", "p">>,   \* not-an-ip
      <<"i", "n", "v", "a", "l", "i", "d">>,   \* invalid
      <<>>,   \* (empty)
      <<"2", "5", "6", ".", "1", ".", "1", ".", "1">>,   \* 256.1.1.1
      <<"1", ".", "2", ".", "3">>,   \* 1.2.3
      <<"1", ".", "2", ".", "3", ".", "4", ".", "5">>,   \* 1.2.3.4.5
      <<"0", "1", ".", "2", ".", "3", ".", "4">>,   \* 01.2.3.4
      <<"1", ".", "2", ".", "3", ".", "4", " ">>,   \* 1.2.3.4 
      <<":", ":", ":">>,   \* :::
      <<"1", ":", "2", ":", "3", ":", "4", ":", "5", ":", "6", ":", "7">>,   \* 1:2:3:4:5:6:7
      <<"1", "2", "3", "4", "5", ":", ":">>,   \* 12345::
      <<"1", ":", ":", "2", ":", ":", "3">>,   \* 1::2::3
      <<"1", ".", "2", ".", "3", ".", "4", ":", ":">>,   \* 1.2.3.4::
      <<"2", "0", "0", "1", ":", "d", "b", "8", ":", ":", "g">>    \* 2001:db8::g
    }

\* other address portions the address parser accepts: upper case, leading
\* zeros, uncompressed zeros, an embedded IPv4 address
AcceptedAddrTexts ==
    {
      <<"2", "0", "0", "1", ":", "D", "B", "8", ":", ":">>,   \* 2001:DB8::
      <<"2", "0", "0", "1", ":", "0", "d", "b", "8", ":", "0", ":", "0", ":", "0", ":", "0", ":", "0", ":", "0">>,   \* 2001:0db8:0:0:0:0:0:0
      <<":", ":", "f", "f", "f", "f", ":", "c", "0", "a", "8", ":", "1", "0", "1">>,   \* ::ffff:c0a8:101
      <<":", ":", "1", "9", "2", ".", "1", "6", "8", ".", "1", ".", "1">>,   \* ::192.168.1.1
      <<"1", ":", "2", ":", "3", ":", "4", ":", "5", ":", "6", ":", "7", "7", ".", "7", "7", ".", "8", "8", ".", "8", "8">>,   \* 1:2:3:4:5:6:77.77.88.88
      <<"1", ":", "2", ":", "3", ":", "4", ":", "5", ":", "6", ":", "7", ":", ":">>    \* 1:2:3:4:5:6:7::
    }

\* prefix portions that are not a plain decimal number
OddPrefixTexts ==
    {
      <<>>,   \* (empty)
      <<"+">>,   \* +
      <<"-">>,   \* -
      <<"+", "2", "4">>,   \* +24
      <<"-", "1">>,   \* -1
      <<"a", "b", "c">>,   \* abc
      <<"0", "2", "4">>,   \* 024
      <<"0", "0", "0">>,   \* 000
      <<" ", "2", "4">>,   \*  24
      <<"2", "4", " ">>,   \* 24 
      <<"2", ".", "4">>,   \* 2.4
      <<"0", "x", "1", "0">>,   \* 0x10
      <<"+", "2", "0", "0">>,   \* +200
      <<"-", "0">>,   \* -0
      <<"1", "e", "1">>    \* 1e1
    }

PlainPrefixTexts ==
    {
      <<"0">>,   \* 0
      <<"2", "4">>,   \* 24
      <<"3", "2">>,   \* 32
      <<"3", "3">>,   \* 33
      <<"1", "2", "8">>,   \* 128
      <<"1", "2", "9">>,   \* 129
      <<"2", "5", "5">>,   \* 255
      <<"2", "5", "6">>,   \* 256
      <<"1", "0", "0", "0">>    \* 1000
    }

\* tokens without a "/" and with more than one
WrongSeparatorTexts ==
    {
      <<"i", "n", "v", "a", "l", "i", "d">>,   \* invalid
      <<>>,   \* (empty)
      <<"1", "9", "2", ".", "1", "6", "8", ".", "1", ".", "0">>,   \* 192.168.1.0
      <<"2", "0", "0", "1", ":", "d", "b", "8", ":", ":">>,   \* 2001:db8::
      <<"2", "4">>    \* 24
    }
    \cup
    {
      <<"1", "9", "2", ".", "1", "6", "8", ".", "1", ".", "0", "/", "2", "4", "/", "8">>,   \* 192.168.1.0/24/8
      <<"/", "/">>,   \* //
      <<"1", "9", "2", ".", "1", "6", "8", ".", "1", ".", "0", "/", "/", "2", "4">>,   \* 192.168.1.0//24
      <<"/", "1", "9", "2", ".", "1", "6", "8", ".", "1", ".", "0", "/", "2", "4">>,   \* /192.168.1.0/24
      <<"1", "9", "2", ".", "1", "6", "8", ".", "1", ".", "0", "/", "2", "4", "/">>,   \* 192.168.1.0/24/
      <<"2", "0", "0", "1", ":", "d", "b", "8", ":", ":", "/", "3", "2", "/">>    \* 2001:db8::/32/
    }

CidrTexts ==
    CanonicalCidrTexts
    \cup {a \o <<"/">> \o p : a \in RejectedAddrTexts \cup AcceptedAddrTexts,
                              p \in OddPrefixTexts \cup PlainPrefixTexts}
    \cup {FmtIp(a) \o <<"/">> \o p : a \in AllAddrs, p \in OddPrefixTexts}
    \cup WrongSeparatorTexts

---------------------------------------------------------------------------
(* Calls of parse_cidr on a text *)

InitParse ==
    /\ pc = "have_text"
    /\ overflow_checks = TRUE
    /\ network1 \in CidrTexts
    /\ network2 = Null /\ ip1 = Null /\ prefix1 = Null /\ ip2 = Null /\ prefix2 = Null
    /\ network_addr1 = Null /\ network_addr2 = Null /\ overlaps = Null
    /\ computed = Null /\ result = Null
    /\ NoCli

CallParseCidr ==
    /\ pc = "have_text"
    /\ pc' = "parse_done"
    /\ result' = ParseCidr(network1)
    /\ UNCHANGED <<overflow_checks, network1, network2, ip1, prefix1, ip2, prefix2,
                   network_addr1, network_addr2, overlaps, computed>>
    /\ UNCHANGED cli_vars

NextParse == CallParseCidr

SpecParse == InitParse /\ [][NextParse]_vars

---------------------------------------------------------------------------
(* Round trip: an address and a valid prefix are written as "<addr>/<prefix>"
   and the text is parsed back *)

\* the pool addresses, and every IPv6 address whose segments are 0 or 0xabc:
\* all the placements of the runs of zero segments that "::" may stand for
RoundTripAddrs == AllAddrs \cup {V6(segs) : segs \in [1..8 -> {0, 2748}]}

InitRoundTrip ==
    /\ pc = "ready"
    /\ overflow_checks = TRUE
    /\ ip1 \in RoundTripAddrs
    /\ prefix1 \in ValidPrefixes(ip1)
    /\ network1 = Null /\ network2 = Null /\ ip2 = Null /\ prefix2 = Null
    /\ network_addr1 = Null /\ network_addr2 = Null /\ overlaps = Null
    /\ computed = Null /\ result = Null
    /\ NoCli

FormatCidr ==
    /\ pc = "ready"
    /\ pc' = "have_text"
    /\ network1' = FmtCidr(ip1, prefix1)
    /\ UNCHANGED <<overflow_checks, network2, ip1, prefix1, ip2, prefix2,
                   network_addr1, network_addr2, overlaps, computed, result>>
    /\ UNCHANGED cli_vars

NextRoundTrip == FormatCidr \/ CallParseCidr

SpecRoundTrip == InitRoundTrip /\ [][NextRoundTrip]_vars

---------------------------------------------------------------------------
(* The command line run: main calls check_cidr_overlap(network1, network2,
   verbose) and ends the process with an exit code *)

\* the prefix numbers written after the addresses of the command line: both
\* ends of the valid range, the numbers next to them, and the ends of u8
CliPrefixNumbers(a) ==
    {0, 1, 24, 25, Width(a) - 1, Width(a), Width(a) + 1, U8Max, U8Max + 1}

\* command line arguments that are no CIDR text
CliRejectedTexts ==
    {
      <<"n", "o", "t", "-", "a", "n", "-", "i", "p", "/", "2", "4">>,   \* not-an-ip/24
      <<"i", "n", "v", "a", "l", "i", "d">>,   \* invalid
      <<"1", "9", "2", ".", "1", "6", "8", ".", "1", ".", "0", "/", "2", "4", "/", "8">>,   \* 192.168.1.0/24/8
      <<"1", "9", "2", ".", "1", "6", "8", ".", "1", ".", "0", "/", "a", "b", "c">>,   \* 192.168.1.0/abc
      <<"1", "0", ".", "0", ".", "0", ".", "0", "/", "-", "1">>,   \* 10.0.0.0/-1
      <<>>   \* (empty)
    }

CliTexts ==
    UNION {{FmtCidr(a, n) : n \in CliPrefixNumbers(a)} : a \in OverlapAddrs}
    \cup CliRejectedTexts

\* one mask computation (lines 9-13, 19-23, 53-57, 68-72): which branch it
\* took, whether width - prefix_len underflowed, and the shift amount
MaskComputation(width, prefix_len) ==
    LET m == PrefixMask(width, prefix_len) IN
      [width |-> width, prefix_len |-> prefix_len, zero_branch |-> prefix_len = 0,
       underflow |-> m.underflow, shift |-> m.shift, panic |-> m.panic]

\* the mask computation a call of get_network_address makes
MasksOfGetNetworkAddress(ip, prefix_len) ==
    <<MaskComputation(Width(ip), prefix_len)>>

\* the mask computations a call of networks_overlap makes: none for different
\* families, else one in each call of get_network_address and the min_prefix one
MasksOfNetworksOverlap(a1, p1, a2, p2) ==
    IF a1.kind # a2.kind THEN <<>>
    ELSE MasksOfGetNetworkAddress(a1, p1) \o MasksOfGetNetworkAddress(a2, p2)
         \o <<MaskComputation(Width(a1), Min(p1, p2))>>

\* an entry of call_log: the function, the arguments (by name) and what the
\* call did
Call(fn, args, masks, ok, panic) ==
    [fn |-> fn, args |-> args, masks |-> masks, ok |-> ok, panic |-> panic]

\* the process ends on a panic: the runtime exits with code 101
Abort ==
    /\ pc' = "exited"
    /\ exit_code' = 101

\* lines 94-104: the lines printed after both texts are parsed
ParsedLines == IF verbose THEN <<"Verbose mode enabled", "Network 1", "Network 2">> ELSE <<>>

\* lines 110-113
NetworkAddressLines == IF verbose THEN <<"Network address 1", "Network address 2">> ELSE <<>>

\* lines 118-141: the verdict and, if verbose, its explanation
VerdictLines ==
    IF overlaps
      THEN <<"OVERLAP">> \o
           (IF verbose
              THEN <<IF prefix1 < prefix2 THEN "contains: network1" ELSE "contains: network2",
                     "Effective overlap">>
              ELSE <<>>)
      ELSE <<"do NOT overlap">> \o
           (IF verbose THEN <<"separate address spaces">> ELSE <<>>)

InitCli ==
    /\ pc = "start"
    /\ overflow_checks \in BOOLEAN
    /\ network1 \in CliTexts
    /\ network2 \in CliTexts
    /\ verbose \in BOOLEAN
    /\ ip1 = Null /\ prefix1 = Null /\ ip2 = Null /\ prefix2 = Null
    /\ network_addr1 = Null /\ network_addr2 = Null /\ overlaps = Null
    /\ computed = Null /\ result = Null
    /\ stdout = <<>> /\ call_log = <<>> /\ exit_code = Null

\* lines 86-91: println!("Checking CIDR overlap ..."); parse_cidr(network1)?
ParseNetwork1 ==
    /\ pc = "start"
    /\ stdout' = Append(stdout, "Checking CIDR overlap")
    /\ LET r == ParseCidr(network1) IN
         /\ call_log' = Append(call_log,
                               Call("parse_cidr", <<"network1">>, <<>>, r.ok, FALSE))
         /\ IF r.ok
              THEN /\ pc' = "parsed1"
                   /\ ip1' = r.ip
                   /\ prefix1' = r.prefix
                   /\ UNCHANGED result
              ELSE /\ pc' = "returned"
                   /\ result' = r
                   /\ UNCHANGED <<ip1, prefix1>>
    /\ UNCHANGED <<overflow_checks, network1, network2, ip2, prefix2, network_addr1,
                   network_addr2, overlaps, computed, verbose, exit_code>>

\* lines 92-104 with a failure of parse_cidr(network2) replaced by the values
\* of network1 instead of being returned
ParseNetwork2DefaultOnError ==
    /\ pc = "parsed1"
    /\ LET r == ParseCidr(network2) IN
         /\ call_log' = Append(call_log,
                               Call("parse_cidr", <<"network2">>, <<>>, r.ok, FALSE))
         /\ ip2' = IF r.ok THEN r.ip ELSE ip1
         /\ prefix2' = IF r.ok THEN r.prefix ELSE prefix1
    /\ pc' = "parsed2"
    /\ stdout' = stdout \o ParsedLines
    /\ UNCHANGED <<overflow_checks, network1, network2, ip1, prefix1, network_addr1,
                   network_addr2, overlaps, computed, verbose, exit_code, result>>

\* lines 92-104: parse_cidr(network2)?, then the verbose lines
ParseNetwork2 ==
    /\ pc = "parsed1"
    /\ LET r == ParseCidr(network2) IN
         /\ call_log' = Append(call_log,
                               Call("parse_cidr", <<"network2">>, <<>>, r.ok, FALSE))
         /\ IF r.ok
              THEN /\ pc' = "parsed2"
                   /\ ip2' = r.ip
                   /\ prefix2' = r.prefix
                   /\ stdout' = stdout \o ParsedLines
                   /\ UNCHANGED result
              ELSE /\ pc' = "returned"
                   /\ result' = r
                   /\ UNCHANGED <<ip2, prefix2, stdout>>
    /\ UNCHANGED <<overflow_checks, network1, network2, ip1, prefix1, network_addr1,
                   network_addr2, overlaps, computed, verbose, exit_code>>

\* line 107: get_network_address(ip1, prefix1)?
NetworkAddress1 ==
    /\ pc = "parsed2"
    /\ LET r == GetNetworkAddress(ip1, prefix1) IN
         /\ call_log' = Append(call_log,
                               Call("get_network_address", <<"ip1", "prefix1">>,
                                    MasksOfGetNetworkAddress(ip1, prefix1), r.ok, r.panic))
         /\ IF r.panic
              THEN Abort /\ UNCHANGED <<network_addr1, result>>
            ELSE IF ~r.ok
              THEN /\ pc' = "returned"
                   /\ result' = [ok |-> FALSE, kind |-> "get_network_address"]
                   /\ UNCHANGED <<network_addr1, exit_code>>
            ELSE /\ pc' = "have_addr1"
                 /\ network_addr1' = r.val
                 /\ UNCHANGED <<result, exit_code>>
    /\ UNCHANGED <<overflow_checks, network1, network2, ip1, prefix1, ip2, prefix2,
                   network_addr2, overlaps, computed, verbose, stdout>>

\* lines 108-113: get_network_address(ip2, prefix2)?, then the verbose lines
NetworkAddress2 ==
    /\ pc = "have_addr1"
    /\ LET r == GetNetworkAddress(ip2, prefix2) IN
         /\ call_log' = Append(call_log,
                               Call("get_network_address", <<"ip2", "prefix2">>,
                                    MasksOfGetNetworkAddress(ip2, prefix2), r.ok, r.panic))
         /\ IF r.panic
              THEN Abort /\ UNCHANGED <<network_addr2, result, stdout>>
            ELSE IF ~r.ok
              THEN /\ pc' = "returned"
                   /\ result' = [ok |-> FALSE, kind |-> "get_network_address"]
                   /\ UNCHANGED <<network_addr2, exit_code, stdout>>
            ELSE /\ pc' = "have_addr2"
                 /\ network_addr2' = r.val
                 /\ stdout' = stdout \o NetworkAddressLines
                 /\ UNCHANGED <<result, exit_code>>
    /\ UNCHANGED <<overflow_checks, network1, network2, ip1, prefix1, ip2, prefix2,
                   network_addr1, overlaps, computed, verbose>>

\* line 116: networks_overlap(ip1, prefix1, ip2, prefix2)?
CheckOverlap ==
    /\ pc = "have_addr2"
    /\ LET r == NetworksOverlap(ip1, prefix1, ip2, prefix2) IN
         /\ call_log' = Append(call_log,
                               Call("networks_overlap", <<"ip1", "prefix1", "ip2", "prefix2">>,
                                    MasksOfNetworksOverlap(ip1, prefix1, ip2, prefix2),
                                    r.ok, r.panic))
         /\ IF r.panic
              THEN Abort /\ UNCHANGED <<overlaps, computed, result>>
            ELSE IF ~r.ok
              THEN /\ pc' = "returned"
                   /\ result' = [ok |-> FALSE, kind |-> "networks_overlap"]
                   /\ UNCHANGED <<overlaps, computed, exit_code>>
            ELSE /\ pc' = "have_overlaps"
                 /\ overlaps' = r.val
                 /\ computed' = r.computed
                 /\ UNCHANGED <<result, exit_code>>
    /\ UNCHANGED <<overflow_checks, network1, network2, ip1, prefix1, ip2, prefix2,
                   network_addr1, network_addr2, verbose, stdout>>

\* lines 118-143: print the verdict and return Ok(())
Report ==
    /\ pc = "have_overlaps"
    /\ pc' = "returned"
    /\ stdout' = stdout \o VerdictLines
    /\ result' = [ok |-> TRUE]
    /\ UNCHANGED <<overflow_checks, network1, network2, ip1, prefix1, ip2, prefix2,
                   network_addr1, network_addr2, overlaps, computed, verbose,
                   call_log, exit_code>>

\* src/src/main.rs lines 52-55: exit(1) on Err, else main returns
MainExit ==
    /\ pc = "returned"
    /\ pc' = "exited"
    /\ exit_code' = IF result.ok THEN 0 ELSE 1
    /\ UNCHANGED <<overflow_checks, network1, network2, ip1, prefix1, ip2, prefix2,
                   network_addr1, network_addr2, overlaps, computed, result, verbose,
                   stdout, call_log>>

NextCli ==
    \/ ParseNetwork1
    \/ ParseNetwork2
    \/ NetworkAddress1
    \/ NetworkAddress2
    \/ CheckOverlap
    \/ Report
    \/ MainExit

SpecCli == InitCli /\ [][NextCli]_vars

---------------------------------------------------------------------------
(* The address range of a CIDR block, computed on the octets *)

\* how many of the bits of octet k (1 = first) are host bits under prefix p
HostBitsInOctet(k, p) ==
    LET h == 8 * k - p IN IF h < 0 THEN 0 ELSE IF h > 8 THEN 8 ELSE h

\* the lowest address of the block of ip/p: host bits 0
FirstAddress(ip, p) ==
    [k \in 1..Len(ip.octets) |->
        ip.octets[k] - (ip.octets[k] % Pow2(HostBitsInOctet(k, p)))]

\* the highest address of the block of ip/p: host bits 1
LastAddress(ip, p) ==
    [k \in 1..Len(ip.octets) |->
        ip.octets[k] - (ip.octets[k] % Pow2(HostBitsInOctet(k, p)))
        + Pow2(HostBitsInOctet(k, p)) - 1]

RECURSIVE OctetsLeqFrom(_, _, _)
OctetsLeqFrom(x, y, k) ==
    IF k > Len(x) THEN TRUE
    ELSE IF x[k] = y[k] THEN OctetsLeqFrom(x, y, k + 1)
    ELSE x[k] < y[k]

\* x <= y as big-endian numbers
OctetsLeq(x, y) == OctetsLeqFrom(x, y, 1)

\* the ranges [first, last] of the two blocks intersect
RangesIntersect(a1, p1, a2, p2) ==
    /\ OctetsLeq(FirstAddress(a1, p1), LastAddress(a2, p2))
    /\ OctetsLeq(FirstAddress(a2, p2), LastAddress(a1, p1))

\* the block a1/p1 lies within the block a2/p2
BlockWithin(a1, p1, a2, p2) ==
    /\ OctetsLeq(FirstAddress(a2, p2), FirstAddress(a1, p1))
    /\ OctetsLeq(LastAddress(a1, p1), LastAddress(a2, p2))

\* bit i (1 = most significant) of an address
Bit(ip, i) == (ip.octets[((i - 1) \div 8) + 1] \div Pow2(7 - ((i - 1) % 8))) % 2

SameFamily == ip1.kind = ip2.kind

---------------------------------------------------------------------------
(* Claims *)

\* C1: for two addresses of one family and prefixes within its width,
\* networks_overlap returns true exactly when the address ranges of the two
\* blocks intersect, which is exactly when one block lies within the other.
C1_OverlapIffRangesIntersect ==
    (pc # "ready" /\ SameFamily) =>
        /\ pc = "overlap_done"
        /\ overlaps = RangesIntersect(ip1, prefix1, ip2, prefix2)
        /\ overlaps = (\/ BlockWithin(ip1, prefix1, ip2, prefix2)
                       \/ BlockWithin(ip2, prefix2, ip1, prefix1))

\* 192.168.1.0/24 and 192.168.1.128/25 (test_networks_overlap_ipv4_partial_overlap)
C1_Witness ==
    /\ pc = "overlap_done"
    /\ ip1 = V4(192, 168, 1, 0) /\ prefix1 = 24
    /\ ip2 = V4(192, 168, 1, 128) /\ prefix2 = 25
    /\ overlaps = TRUE

\* C2: networks_overlap is symmetric: the call with the two (address, prefix)
\* pairs exchanged returns the same boolean, for the same and for mixed families.
C2_OverlapSymmetric ==
    pc # "ready" =>
        /\ pc = "overlap_done"
        /\ ~NetworksOverlap(ip2, prefix2, ip1, prefix1).panic
        /\ overlaps = NetworksOverlap(ip2, prefix2, ip1, prefix1).val

\* 192.168.1.128/25 against 192.168.1.0/24: the pair of
\* test_networks_overlap_ipv4_partial_overlap in the reverse order
C2_Witness ==
    /\ pc = "overlap_done"
    /\ ip1 = V4(192, 168, 1, 128) /\ prefix1 = 25
    /\ ip2 = V4(192, 168, 1, 0) /\ prefix2 = 24
    /\ overlaps = TRUE

\* C3: with one IPv4 and one IPv6 address networks_overlap returns false for
\* every pair of prefixes, in either order, and computes no network address
\* and no mask.
C3_MixedFamiliesNeverOverlap ==
    (pc # "ready" /\ ~SameFamily) =>
        /\ pc = "overlap_done"
        /\ overlaps = FALSE
        /\ computed = [network_addrs |-> 0, masks |-> 0]

\* an IPv6 first argument against an IPv4 second one, both with prefix 0
C3_Witness ==
    /\ pc = "overlap_done"
    /\ ip1.kind = "V6" /\ ip2.kind = "V4"
    /\ prefix1 = 0 /\ prefix2 = 0
    /\ overlaps = FALSE

\* C4: if either prefix is 0, networks_overlap returns true for all addresses
\* of one family and every valid value of the other prefix.
C4_PrefixZeroOverlapsAll ==
    (pc # "ready" /\ SameFamily /\ (prefix1 = 0 \/ prefix2 = 0)) =>
        /\ pc = "overlap_done"
        /\ overlaps = TRUE

\* prefix 0 in the second position, against an unrelated /32
C4_Witness ==
    /\ pc = "overlap_done"
    /\ ip1 = V4(192, 168, 1, 1) /\ prefix1 = 32
    /\ ip2 = V4(192, 168, 1, 128) /\ prefix2 = 0
    /\ overlaps = TRUE

\* C5: when both prefixes are the full width of the family (32 and 32, 128 and
\* 128), networks_overlap returns true exactly when the two addresses are equal.
C5_FullPrefixOverlapIffEqual ==
    (pc # "ready" /\ SameFamily /\ prefix1 = Width(ip1) /\ prefix2 = Width(ip2)) =>
        /\ pc = "overlap_done"
        /\ overlaps = (ip1 = ip2)

\* two /32 hosts one bit apart do not overlap
C5_Witness ==
    /\ pc = "overlap_done"
    /\ ip1 = V4(192, 168, 1, 0) /\ prefix1 = 32
    /\ ip2 = V4(192, 168, 1, 1) /\ prefix2 = 32
    /\ overlaps = FALSE

\* C6: for every address A and every prefix P within the width of A's family,
\* get_network_address(A, P) returns an address of the same family whose top
\* P bits are those of A and whose remaining bits are zero.
C6_NetworkAddressBits ==
    pc # "ready" =>
        /\ pc = "network_done"
        /\ network_addr1.kind = ip1.kind
        /\ Len(network_addr1.octets) = Len(ip1.octets)
        /\ \A i \in 1..Width(ip1) :
              Bit(network_addr1, i) = IF i <= prefix1 THEN Bit(ip1, i) ELSE 0
        /\ prefix1 = 0 => \A k \in 1..Len(ip1.octets) : network_addr1.octets[k] = 0
        /\ prefix1 = Width(ip1) => network_addr1 = ip1

\* 192.168.1.128/20 reduces to 192.168.0.0
C6_Witness ==
    /\ pc = "network_done"
    /\ ip1 = V4(192, 168, 1, 128) /\ prefix1 = 20
    /\ network_addr1 = V4(192, 168, 0, 0)

\* a text of decimal digits only, and its value
PlainNumber(text) == Len(text) > 0 /\ \A i \in 1..Len(text) : ToDigit(text[i], 10) >= 0

RECURSIVE NumberValue(_)
NumberValue(text) ==
    IF Len(text) = 0 THEN 0
    ELSE 10 * NumberValue(SubSeq(text, 1, Len(text) - 1)) + ToDigit(text[Len(text)], 10)

\* C7: parse_cidr never succeeds with a prefix above the width of the
\* address family (32 for IPv4, 128 for IPv6), and a text "<address>/<number>"
\* whose number exceeds that maximum fails with InvalidCidr.
C7_PrefixWithinFamilyWidth ==
    pc = "parse_done" =>
        /\ result.ok => result.prefix \in 0..Width(result.ip)
        /\ LET parts == Split(network1, "/") IN
             (/\ Len(parts) = 2
              /\ IpAddrFromStr(parts[1]).ok
              /\ PlainNumber(parts[2])
              /\ NumberValue(parts[2]) > Width(IpAddrFromStr(parts[1]).val))
             => (~result.ok /\ result.kind = "InvalidCidr")

\* "192.168.1.0/33" fails with InvalidCidr (test_check_cidr_overlap_integration)
C7_Witness ==
    /\ pc = "parse_done"
    /\ network1 = <<"1", "9", "2", ".", "1", "6", "8", ".", "1", ".", "0", "/", "3", "3">>
    /\ ~result.ok
    /\ result.kind = "InvalidCidr"

\* C8: every error parse_cidr returns carries the text that was passed to
\* parse_cidr, whatever the cause of the failure.
C8_ErrorCarriesInput ==
    (pc = "parse_done" /\ ~result.ok) => result.text = network1

\* C9 as stated: whenever parse_cidr fails, the error kind is InvalidCidr.
C9_ErrorKindAlwaysInvalidCidr ==
    (pc = "parse_done" /\ ~result.ok) => result.kind = "InvalidCidr"

\* C9 as amended: a failure of parse_cidr is InvalidFormat when the token has
\* exactly one "/" and the address parser rejects the address portion, and
\* InvalidCidr for every other cause (not exactly one "/", a prefix portion
\* that is no u8 number, a prefix above the maximum of the family).
C9_ErrorKindByCause ==
    (pc = "parse_done" /\ ~result.ok) =>
        LET parts == Split(network1, "/") IN
          IF Len(parts) = 2 /\ ~IpAddrFromStr(parts[1]).ok
            THEN result.kind = "InvalidFormat"
            ELSE result.kind = "InvalidCidr"

\* "not-an-ip/24" fails with InvalidFormat
C9_Witness ==
    /\ pc = "parse_done"
    /\ network1 = <<"n", "o", "t", "-", "a", "n", "-", "i", "p", "/", "2", "4">>
    /\ ~result.ok
    /\ result.kind = "InvalidFormat"

\* C10: for every address and every prefix within the width of its family,
\* parse_cidr of the text "<addr>/<prefix>" (the address as Display writes it,
\* the prefix in decimal) succeeds and returns that address and that prefix.
C10_RoundTrip ==
    pc = "parse_done" => result = [ok |-> TRUE, ip |-> ip1, prefix |-> prefix1]

\* ::ffff:192.168.1.1/128, written with an embedded IPv4 address, parses back
C10_Witness ==
    /\ pc = "parse_done"
    /\ ip1 = V6(<<0, 0, 0, 0, 0, 65535, 49320, 257>>)
    /\ prefix1 = 128
    /\ network1 = <<":", ":", "f", "f", "f", "f", ":", "1", "9", "2", ".", "1", "6", "8", ".", "1", ".", "1", "/", "1", "2", "8">>
    /\ result.ok

\* parse_cidr fails on one of the two texts of the command line
ParseFails == ~ParseCidr(network1).ok \/ ~ParseCidr(network2).ok

\* a verdict line has been printed
HasVerdict == \E i \in 1..Len(stdout) : stdout[i] \in {"OVERLAP", "do NOT overlap"}

\* C11: check_cidr_overlap returns an error, and the process exits with a
\* non-zero code, exactly when parse_cidr fails on network1 or on network2.
\* A failure on network1 is returned before network2 is parsed; on a failure
\* no network address is computed and no verdict is printed.  When both texts
\* parse it returns Ok and the exit code is 0, whether the verdict is overlap
\* or not.
C11_ErrorIffParseFails ==
    /\ pc \in {"returned", "exited"} =>
          /\ ~result.ok <=> ParseFails
          /\ ~ParseCidr(network1).ok =>
                /\ result = ParseCidr(network1)
                /\ call_log = <<Call("parse_cidr", <<"network1">>, <<>>, FALSE, FALSE)>>
                /\ ip1 = Null /\ ip2 = Null /\ prefix2 = Null
          /\ (ParseCidr(network1).ok /\ ~ParseCidr(network2).ok) =>
                /\ result = ParseCidr(network2)
                /\ Len(call_log) = 2
                /\ ip2 = Null /\ prefix2 = Null
          /\ ~result.ok =>
                /\ ~HasVerdict
                /\ overlaps = Null /\ network_addr1 = Null /\ network_addr2 = Null
          /\ result.ok =>
                /\ HasVerdict
                /\ overlaps \in BOOLEAN
    /\ pc = "exited" =>
          /\ exit_code # 0 <=> ParseFails
          /\ exit_code = 0 <=> result.ok
          /\ exit_code \in {0, 1}

\* "192.168.1.0/24" parses and "192.168.1.0/33" does not: the run ends with
\* exit code 1 after two calls of parse_cidr
C11_Witness ==
    /\ pc = "exited"
    /\ network1 = <<"1", "9", "2", ".", "1", "6", "8", ".", "1", ".", "0", "/", "2", "4">>
    /\ network2 = <<"1", "9", "2", ".", "1", "6", "8", ".", "1", ".", "0", "/", "3", "3">>
    /\ exit_code = 1
    /\ Len(call_log) = 2

\* a mask of n leading one-bits on w bits
LeadingOnes(w, n) == [i \in 1..w |-> IF i <= n THEN 1 ELSE 0]

\* the address under the mask of n leading one-bits
MaskedWith(ip, n) == BitAnd(UintFromIp(ip), LeadingOnes(Width(ip), n))

\* C12: for two addresses of one family and valid prefixes, the result of
\* networks_overlap equals the comparison of the two original addresses, each
\* masked with the mask of min(prefix1, prefix2) leading one-bits: the network
\* addresses (each reduced with its own prefix) give under that mask the same
\* values as the original addresses.
C12_ReducedEqualsOriginalUnderMinMask ==
    (pc # "ready" /\ SameFamily) =>
        /\ pc = "overlap_done"
        /\ overlaps = (MaskedWith(ip1, Min(prefix1, prefix2))
                        = MaskedWith(ip2, Min(prefix1, prefix2)))
        /\ MaskedWith(GetNetworkAddress(ip1, prefix1).val, Min(prefix1, prefix2))
             = MaskedWith(ip1, Min(prefix1, prefix2))
        /\ MaskedWith(GetNetworkAddress(ip2, prefix2).val, Min(prefix1, prefix2))
             = MaskedWith(ip2, Min(prefix1, prefix2))

\* 192.168.1.128/24 and 192.168.1.1/25: both addresses have host bits set, the
\* network addresses are both 192.168.1.0 and the blocks overlap
C12_Witness ==
    /\ pc = "overlap_done"
    /\ ip1 = V4(192, 168, 1, 128) /\ prefix1 = 24
    /\ ip2 = V4(192, 168, 1, 1) /\ prefix2 = 25
    /\ GetNetworkAddress(ip1, prefix1).val # ip1
    /\ GetNetworkAddress(ip2, prefix2).val # ip2
    /\ overlaps = TRUE

\* a mask computation without a fault: the prefix is within the width, the
\* subtraction width - prefix_len does not underflow, and the shift, made only
\* for a prefix above 0, is by width - prefix_len, a number of 0..width-1
FaultFree(m) ==
    /\ m.prefix_len \in 0..m.width
    /\ ~m.underflow
    /\ ~m.panic
    /\ m.zero_branch <=> m.prefix_len = 0
    /\ ~m.zero_branch => (m.shift = m.width - m.prefix_len /\ m.shift \in 0..(m.width - 1))
    /\ m.prefix_len = m.width => m.shift = 0

\* C13: in every run of check_cidr_overlap, get_network_address and
\* networks_overlap are called only after parse_cidr accepted both texts, with
\* prefixes of at most 32 (IPv4) or 128 (IPv6); every mask they compute is
\* free of faults (no underflow of width - prefix, shift amount within
\* 0..width-1, prefix 0 through the zero branch, prefix = width a shift by 0),
\* and neither function returns an error, panics or reaches unreachable!().
C13_MaskComputationsFaultFree ==
    /\ \A i \in 1..Len(call_log) :
          call_log[i].fn # "parse_cidr" =>
             /\ i > 2
             /\ call_log[1] = Call("parse_cidr", <<"network1">>, <<>>, TRUE, FALSE)
             /\ call_log[2] = Call("parse_cidr", <<"network2">>, <<>>, TRUE, FALSE)
             /\ prefix1 \in 0..Width(ip1)
             /\ prefix2 \in 0..Width(ip2)
             /\ call_log[i].ok
             /\ ~call_log[i].panic
             /\ \A k \in 1..Len(call_log[i].masks) : FaultFree(call_log[i].masks[k])
    /\ pc = "exited" => exit_code \in {0, 1}

\* "192.168.1.0/32" against "192.168.1.128/0" in a release build: the first
\* mask is a shift by 0, the second takes the zero branch, and the run ends
\* with exit code 0 after all five calls
C13_Witness ==
    /\ pc = "exited"
    /\ ~overflow_checks
    /\ network1 = <<"1", "9", "2", ".", "1", "6", "8", ".", "1", ".", "0", "/", "3", "2">>
    /\ network2 = <<"1", "9", "2", ".", "1", "6", "8", ".", "1", ".", "1", "2", "8", "/", "0">>
    /\ Len(call_log) = 5
    /\ call_log[3].masks[1].shift = 0 /\ ~call_log[3].masks[1].zero_branch
    /\ call_log[4].masks[1].zero_branch
    /\ Len(call_log[5].masks) = 3
    /\ exit_code = 0

====
